---- MODULE Spec2Model ----
(***************************************************************************)
(* Ordered-position management of the task board: the position calculator  *)
(* (frontend/src/utils/positionCalculator.ts), the rebalancer, and the     *)
(* drag handler of the project tasks page (handleDragEnd).                 *)
(*                                                                         *)
(* Positions are JavaScript numbers: IEEE doubles, exact on every integer  *)
(* the code can produce here (|x| < 2^53).  The code never truncates them  *)
(* to 32 bits, so values below i32::MIN and above i32::MAX are ordinary    *)
(* values of the program.  The model keeps them exact as two-limb integers *)
(* hi * 2^16 + lo with 0 <= lo < 2^16.                                     *)
(***************************************************************************)
EXTENDS Integers, Sequences, FiniteSets, TLC

VARIABLES
  tasks,          \* board: task id -> [status, position] as stored and displayed
  lastDrop,       \* what the last handleDragEnd call did
  nDrops,         \* number of drops handled so far
  prevPosition,   \* calculateNewPosition: first argument
  nextPosition,   \* calculateNewPosition: second argument
  newPosition,    \* calculateNewPosition: returned value
  taskList,       \* rebalancePositions / needsRebalancing: the argument
  rebalanced,     \* rebalancePositions(taskList)
  rebalancedAgain,\* rebalancePositions applied to its own output
  needs,          \* needsRebalancing(taskList)
  autoReviewSettings, \* the auto-review settings the tasks page reads
  snapshot,       \* concurrent drags: the board both actors dragged on
  inflight,       \* concurrent drags: each actor's request and its state
  writes,         \* concurrent drags: the actors whose write landed, in order
  searchQuery,    \* the text of the board's search box
  columns,        \* kanbanColumns as displayed for tasks and searchQuery
  calls,          \* calls the purity probe made on taskList, with their results
  pc              \* position of the probe that exercises the pure functions

vars == <<tasks, lastDrop, nDrops, prevPosition, nextPosition, newPosition,
          taskList, rebalanced, rebalancedAgain, needs, autoReviewSettings,
          snapshot, inflight, writes, searchQuery, columns, calls, pc>>

boardVars == <<tasks, lastDrop, nDrops, autoReviewSettings>>
concurrentVars == <<snapshot, inflight, writes>>
displayVars == <<searchQuery, columns>>
calcVars == <<prevPosition, nextPosition, newPosition>>
rebalanceVars == <<taskList, rebalanced, rebalancedAgain, needs>>

----------------------------------------------------------------------------
(* Exact integers as two limbs.                                            *)

Base == 65536

Norm(h, l) == [hi |-> h + (l \div Base), lo |-> l % Base]

Num(k) == Norm(0, k)

Plus(a, b) == Norm(a.hi + b.hi, a.lo + b.lo)

Minus(a, b) == Norm(a.hi - b.hi, a.lo - b.lo)

Times(a, k) == Norm(a.hi * k, a.lo * k)

FloorDiv(a, d) == Norm(a.hi \div d, (((a.hi % d) * Base) + a.lo) \div d)

Less(a, b) == a.hi < b.hi \/ (a.hi = b.hi /\ a.lo < b.lo)

LessEq(a, b) == a = b \/ Less(a, b)

----------------------------------------------------------------------------
(* positionCalculator.ts                                                   *)

MIN_POSITION == [hi |-> -32768, lo |-> 0]

MAX_POSITION == [hi |-> 32767, lo |-> 65535]

DEFAULT_GAP == 1000

NULL == [null |-> TRUE]

calculateNewPosition_plainHalfGap(prev, next) ==
  IF prev = NULL /\ next # NULL THEN Minus(next, Num(DEFAULT_GAP))
  ELSE IF prev # NULL /\ next = NULL THEN Plus(prev, Num(DEFAULT_GAP))
  ELSE IF prev # NULL /\ next # NULL THEN
    LET gap == Minus(next, prev) IN
      IF Less(gap, Num(2)) THEN Plus(prev, Num(1))
      ELSE FloorDiv(gap, 2)
  ELSE Num(0)

calculateNewPosition_gapBelowOne(prev, next) ==
  IF prev = NULL /\ next # NULL THEN Minus(next, Num(DEFAULT_GAP))
  ELSE IF prev # NULL /\ next = NULL THEN Plus(prev, Num(DEFAULT_GAP))
  ELSE IF prev # NULL /\ next # NULL THEN
    LET gap == Minus(next, prev) IN
      IF Less(gap, Num(1)) THEN Plus(prev, Num(1))
      ELSE FloorDiv(Plus(prev, next), 2)
  ELSE Num(0)

calculateNewPosition_degradedAtPrev(prev, next) ==
  IF prev = NULL /\ next # NULL THEN Minus(next, Num(DEFAULT_GAP))
  ELSE IF prev # NULL /\ next = NULL THEN Plus(prev, Num(DEFAULT_GAP))
  ELSE IF prev # NULL /\ next # NULL THEN
    LET gap == Minus(next, prev) IN
      IF Less(gap, Num(2)) THEN prev
      ELSE FloorDiv(Plus(prev, next), 2)
  ELSE Num(0)

calculateNewPosition_headAddsGap(prev, next) ==
  IF prev = NULL /\ next # NULL THEN Plus(next, Num(DEFAULT_GAP))
  ELSE IF prev # NULL /\ next = NULL THEN Plus(prev, Num(DEFAULT_GAP))
  ELSE IF prev # NULL /\ next # NULL THEN
    LET gap == Minus(next, prev) IN
      IF Less(gap, Num(2)) THEN Plus(prev, Num(1))
      ELSE FloorDiv(Plus(prev, next), 2)
  ELSE Num(0)

\* Math.trunc in place of Math.floor: rounds an odd negative sum towards zero.
calculateNewPosition_truncates(prev, next) ==
  IF prev = NULL /\ next # NULL THEN Minus(next, Num(DEFAULT_GAP))
  ELSE IF prev # NULL /\ next = NULL THEN Plus(prev, Num(DEFAULT_GAP))
  ELSE IF prev # NULL /\ next # NULL THEN
    LET gap == Minus(next, prev)
        sum == Plus(prev, next) IN
      IF Less(gap, Num(2)) THEN Plus(prev, Num(1))
      ELSE IF Less(sum, Num(0)) /\ sum.lo % 2 = 1
        THEN Plus(FloorDiv(sum, 2), Num(1))
        ELSE FloorDiv(sum, 2)
  ELSE Num(0)

calculateNewPosition(prev, next) ==
  IF prev = NULL /\ next # NULL THEN Minus(next, Num(DEFAULT_GAP))
  ELSE IF prev # NULL /\ next = NULL THEN Plus(prev, Num(DEFAULT_GAP))
  ELSE IF prev # NULL /\ next # NULL THEN
    LET gap == Minus(next, prev) IN
      IF Less(gap, Num(2)) THEN Plus(prev, Num(1))
      ELSE FloorDiv(Plus(prev, next), 2)
  ELSE Num(0)

----------------------------------------------------------------------------
(* Bounds and the inputs drawn from them.                                  *)

Window == 2

InRange(p) == LessEq(MIN_POSITION, p) /\ LessEq(p, MAX_POSITION)

Anchors == {MIN_POSITION, Num(0), Num(1000), Num(2000), Num(3000), MAX_POSITION}

Samples == {p \in {Plus(a, Num(d)) : a \in Anchors, d \in (0 - Window)..Window} : InRange(p)}

----------------------------------------------------------------------------
(* Probe of calculateNewPosition: any two arguments, then one call.        *)

InitCallsIdle == calls = <<>>

InitDisplayIdle ==
  /\ searchQuery = <<>>
  /\ columns = <<>>

InitConcurrentIdle ==
  /\ snapshot = <<>>
  /\ inflight = <<>>
  /\ writes = <<>>

InitBoardIdle ==
  /\ tasks = <<>>
  /\ lastDrop = <<>>
  /\ nDrops = 0
  /\ autoReviewSettings = <<>>
  /\ InitConcurrentIdle
  /\ InitDisplayIdle
  /\ InitCallsIdle

InitRebalanceIdle ==
  /\ taskList = <<>>
  /\ rebalanced = <<>>
  /\ rebalancedAgain = <<>>
  /\ needs = FALSE

InitCalc ==
  /\ prevPosition \in Samples \cup {NULL}
  /\ nextPosition \in Samples \cup {NULL}
  /\ newPosition = NULL
  /\ pc = "start"
  /\ InitBoardIdle
  /\ InitRebalanceIdle

Calculate ==
  /\ pc = "start"
  /\ newPosition' = calculateNewPosition(prevPosition, nextPosition)
  /\ pc' = "done"
  /\ UNCHANGED <<prevPosition, nextPosition, boardVars, rebalanceVars, concurrentVars, displayVars, calls>>

NextCalc == Calculate

SpecCalc == InitCalc /\ [][NextCalc]_vars

----------------------------------------------------------------------------
(* Properties of calculateNewPosition (checked under SpecCalc).            *)

BothPresent == prevPosition # NULL /\ nextPosition # NULL

Called == pc = "done"

\* C1: for all integers a < b with b - a >= 2, calculateNewPosition(a, b)
\* returns a value p strictly between both neighbours, a < p < b.
C1_StrictlyBetween ==
  (Called /\ BothPresent /\ Less(prevPosition, nextPosition)
     /\ LessEq(Num(2), Minus(nextPosition, prevPosition)))
  => (Less(prevPosition, newPosition) /\ Less(newPosition, nextPosition))

C1_Witness ==
  /\ Called
  /\ prevPosition = MIN_POSITION
  /\ nextPosition = Plus(MIN_POSITION, Num(2))
  /\ newPosition = Plus(MIN_POSITION, Num(1))

\* C3 as stated: one calculateNewPosition(prev, next) call with prev < next
\* never returns a position equal to prev or equal to next.
C3_NeverEqualsNeighbour ==
  (Called /\ BothPresent /\ Less(prevPosition, nextPosition))
  => (newPosition # prevPosition /\ newPosition # nextPosition)

\* C3 amended: with prev < next the returned position is never prev, and it
\* equals next exactly when next - prev = 1 (the degraded placement prev + 1);
\* with next - prev >= 2 it differs from both neighbours.
C3_EqualsNextOnlyWhenAdjacent ==
  (Called /\ BothPresent /\ Less(prevPosition, nextPosition))
  => /\ newPosition # prevPosition
     /\ (newPosition = nextPosition) <=> (Minus(nextPosition, prevPosition) = Num(1))

C3_Witness ==
  /\ Called
  /\ prevPosition = Num(1000)
  /\ nextPosition = Num(1001)
  /\ newPosition = nextPosition

\* C4: for all integers a < b with b - a < 2, calculateNewPosition(a, b)
\* returns a + 1, which is strictly greater than a.
C4_DegradedIsPrevPlusOne ==
  (Called /\ BothPresent /\ Less(prevPosition, nextPosition)
     /\ Less(Minus(nextPosition, prevPosition), Num(2)))
  => (newPosition = Plus(prevPosition, Num(1)) /\ Less(prevPosition, newPosition))

C4_Witness ==
  /\ Called
  /\ prevPosition = Num(2000)
  /\ nextPosition = Num(2001)
  /\ newPosition = Num(2001)

\* C5: calculateNewPosition(none, n) = n - 1000 for every n,
\* calculateNewPosition(p, none) = p + 1000 for every p, and
\* calculateNewPosition(none, none) = 0.
C5_HeadTailEmpty ==
  Called =>
    /\ (prevPosition = NULL /\ nextPosition # NULL)
         => newPosition = Minus(nextPosition, Num(1000))
    /\ (prevPosition # NULL /\ nextPosition = NULL)
         => newPosition = Plus(prevPosition, Num(1000))
    /\ (prevPosition = NULL /\ nextPosition = NULL) => newPosition = Num(0)

C5_Witness ==
  /\ Called
  /\ prevPosition = NULL
  /\ nextPosition = Num(3000)
  /\ newPosition = Num(2000)

----------------------------------------------------------------------------
(* needsRebalancing and rebalancePositions.                                *)

\* Array.prototype.sort with (a, b) => a.position - b.position: ascending by
\* position, stable (elements that compare equal keep their input order).
RECURSIVE InsertByPosition(_, _)
InsertByPosition(x, sorted) ==
  IF sorted = <<>> THEN <<x>>
  ELSE LET last == sorted[Len(sorted)] IN
    IF LessEq(last.position, x.position) THEN Append(sorted, x)
    ELSE Append(InsertByPosition(x, SubSeq(sorted, 1, Len(sorted) - 1)), last)

RECURSIVE InsertByPositionDescending(_, _)
InsertByPositionDescending(x, sorted) ==
  IF sorted = <<>> THEN <<x>>
  ELSE LET last == sorted[Len(sorted)] IN
    IF LessEq(x.position, last.position) THEN Append(sorted, x)
    ELSE Append(InsertByPositionDescending(x, SubSeq(sorted, 1, Len(sorted) - 1)), last)

RECURSIVE SortByPosition_descending(_)
SortByPosition_descending(ts) ==
  IF ts = <<>> THEN <<>>
  ELSE InsertByPositionDescending(ts[Len(ts)],
                                  SortByPosition_descending(SubSeq(ts, 1, Len(ts) - 1)))

\* A sort that keeps one task of every group sharing a position.
RECURSIVE SortByPosition_dropsTies(_)
SortByPosition_dropsTies(ts) ==
  IF ts = <<>> THEN <<>>
  ELSE LET rest == SortByPosition_dropsTies(SubSeq(ts, 1, Len(ts) - 1))
           x == ts[Len(ts)] IN
    IF \E i \in 1..Len(rest) : rest[i].position = x.position THEN rest
    ELSE InsertByPosition(x, rest)

SortByPosition_unsorted(ts) == ts

RECURSIVE SortByPosition(_)
SortByPosition(ts) ==
  IF ts = <<>> THEN <<>>
  ELSE InsertByPosition(ts[Len(ts)], SortByPosition(SubSeq(ts, 1, Len(ts) - 1)))

REBALANCE_THRESHOLD == 10

needsRebalancing(ts) ==
  IF Len(ts) < 2 THEN FALSE
  ELSE LET sortedTasks == SortByPosition(ts) IN
    \E i \in 2..Len(sortedTasks) :
      Less(Minus(sortedTasks[i].position, sortedTasks[i - 1].position),
           Num(REBALANCE_THRESHOLD))

rebalancePositions_constantOffset(ts) ==
  IF Len(ts) = 0 THEN <<>>
  ELSE LET sortedTasks == SortByPosition(ts)
           totalRange == Minus(MAX_POSITION, MIN_POSITION)
           gap == FloorDiv(totalRange, Len(sortedTasks) + 1)
       IN [i \in 1..Len(sortedTasks) |->
             [task_id |-> sortedTasks[i].id,
              position |-> Plus(MIN_POSITION, gap)]]

rebalancePositions_emptyGetsEntry(ts) ==
  IF Len(ts) = 0 THEN <<[task_id |-> "", position |-> Num(0)]>>
  ELSE LET sortedTasks == SortByPosition(ts)
           totalRange == Minus(MAX_POSITION, MIN_POSITION)
           gap == FloorDiv(totalRange, Len(sortedTasks) + 1)
       IN [i \in 1..Len(sortedTasks) |->
             [task_id |-> sortedTasks[i].id,
              position |-> Plus(MIN_POSITION, Times(gap, i))]]

rebalancePositions_gapOverCount(ts) ==
  IF Len(ts) = 0 THEN <<>>
  ELSE LET sortedTasks == SortByPosition(ts)
           totalRange == Minus(MAX_POSITION, MIN_POSITION)
           gap == FloorDiv(totalRange, Len(sortedTasks))
       IN [i \in 1..Len(sortedTasks) |->
             [task_id |-> sortedTasks[i].id,
              position |-> Plus(MIN_POSITION, Times(gap, i))]]

rebalancePositions_keepsPositions(ts) ==
  IF Len(ts) = 0 THEN <<>>
  ELSE LET sortedTasks == SortByPosition(ts)
       IN [i \in 1..Len(sortedTasks) |->
             [task_id |-> sortedTasks[i].id,
              position |-> sortedTasks[i].position]]

rebalancePositions(ts) ==
  IF Len(ts) = 0 THEN <<>>
  ELSE LET sortedTasks == SortByPosition(ts)
           totalRange == Minus(MAX_POSITION, MIN_POSITION)
           gap == FloorDiv(totalRange, Len(sortedTasks) + 1)
       IN [i \in 1..Len(sortedTasks) |->
             [task_id |-> sortedTasks[i].id,
              position |-> Plus(MIN_POSITION, Times(gap, i))]]

\* The updates of a rebalance written back: the same ids with the new positions.
ApplyUpdates(updates) ==
  [i \in 1..Len(updates) |-> [id |-> updates[i].task_id, position |-> updates[i].position]]

----------------------------------------------------------------------------
(* Probe of the rebalancer: any task list, then needsRebalancing, then     *)
(* rebalancePositions, then rebalancePositions on its own output.          *)

MaxLen == 3

IdPool == <<"t1", "t2", "t3", "t4", "t5">>

ListPositions == {MIN_POSITION, Num(0), Num(9), Num(10), Num(1000), MAX_POSITION}

TaskLists ==
  UNION {{[i \in 1..n |-> [id |-> IdPool[i], position |-> f[i]]] :
            f \in [1..n -> ListPositions]} : n \in 0..MaxLen}

InitCalcIdle ==
  /\ prevPosition = NULL
  /\ nextPosition = NULL
  /\ newPosition = NULL

InitRebalance ==
  /\ taskList \in TaskLists
  /\ rebalanced = <<>>
  /\ rebalancedAgain = <<>>
  /\ needs = FALSE
  /\ pc = "start"
  /\ InitBoardIdle
  /\ InitCalcIdle

NeedsRebalancing ==
  /\ pc = "start"
  /\ needs' = needsRebalancing(taskList)
  /\ pc' = "checked"
  /\ UNCHANGED <<taskList, rebalanced, rebalancedAgain, boardVars, calcVars, concurrentVars, displayVars, calls>>

Rebalance ==
  /\ pc = "checked"
  /\ rebalanced' = rebalancePositions(taskList)
  /\ pc' = "once"
  /\ UNCHANGED <<taskList, rebalancedAgain, needs, boardVars, calcVars, concurrentVars, displayVars, calls>>

RebalanceAgain ==
  /\ pc = "once"
  /\ rebalancedAgain' = rebalancePositions(ApplyUpdates(rebalanced))
  /\ pc' = "twice"
  /\ UNCHANGED <<taskList, rebalanced, needs, boardVars, calcVars, concurrentVars, displayVars, calls>>

NextRebalance == NeedsRebalancing \/ Rebalance \/ RebalanceAgain

SpecRebalance == InitRebalance /\ [][NextRebalance]_vars

----------------------------------------------------------------------------
(* Properties of the rebalancer (checked under SpecRebalance).             *)

Ids(updates) == [i \in 1..Len(updates) |-> updates[i].task_id]

\* The input is already in its final order: ascending by position.
InFinalOrder(ts) ==
  \A i \in 1..(Len(ts) - 1) : LessEq(ts[i].position, ts[i + 1].position)

\* C6: for every non-empty input already in its final desired order,
\* rebalancePositions returns as many entries as the input, lists the ids in
\* input order, assigns strictly increasing positions along that order, and
\* every assigned position lies in [MIN_POSITION, MAX_POSITION].
C6_RebalanceGuarantees ==
  (pc \in {"once", "twice"} /\ Len(taskList) > 0 /\ InFinalOrder(taskList))
  => /\ Len(rebalanced) = Len(taskList)
     /\ \A i \in 1..Len(taskList) : rebalanced[i].task_id = taskList[i].id
     /\ \A i \in 1..(Len(rebalanced) - 1) :
          Less(rebalanced[i].position, rebalanced[i + 1].position)
     /\ \A i \in 1..Len(rebalanced) : InRange(rebalanced[i].position)

C6_Witness ==
  /\ pc = "once"
  /\ Len(taskList) = MaxLen
  /\ InFinalOrder(taskList)
  /\ taskList[1].position = taskList[2].position
  /\ Less(rebalanced[1].position, rebalanced[2].position)

\* C7: feeding the output of rebalancePositions back into rebalancePositions
\* (same ids, the new positions, same order) yields the ids in the same order
\* as the first output.
C7_SecondPassKeepsOrder ==
  pc = "twice" => Ids(rebalancedAgain) = Ids(rebalanced)

C7_Witness ==
  /\ pc = "twice"
  /\ Len(taskList) >= 2
  /\ ~InFinalOrder(taskList)
  /\ Ids(rebalancedAgain) = Ids(rebalanced)
  /\ Ids(rebalanced) # [i \in 1..Len(taskList) |-> taskList[i].id]

\* C8: needsRebalancing(tasks) is true if and only if two of the tasks lie
\* less than 10 apart (which is when some adjacent pair of the sorted list has
\* a gap below 10); it is false for fewer than two tasks and true whenever two
\* tasks share a position.
CloseTogether(ts) ==
  \E i, j \in 1..Len(ts) :
    /\ i # j
    /\ LessEq(ts[i].position, ts[j].position)
    /\ Less(Minus(ts[j].position, ts[i].position), Num(10))

C8_NeedsRebalancingIffSmallGap ==
  pc # "start" =>
    /\ needs = CloseTogether(taskList)
    /\ Len(taskList) < 2 => ~needs
    /\ (\E i, j \in 1..Len(taskList) :
          i # j /\ taskList[i].position = taskList[j].position) => needs

C8_Witness ==
  /\ pc = "checked"
  /\ Len(taskList) = 3
  /\ taskList[1].position = Num(1000)
  /\ taskList[2].position = Num(0)
  /\ taskList[3].position = Num(9)
  /\ needs

----------------------------------------------------------------------------
(* The board of the project tasks page and its drag handler.               *)

TASK_STATUSES == <<"todo", "inprogress", "inreview", "done", "cancelled">>

StatusSet == {TASK_STATUSES[i] : i \in 1..Len(TASK_STATUSES)}

TaskIds == {"t1", "t2", "t3"}

\* created_at of each task: fixed at creation, never written by a drop.
created_at == [t \in TaskIds |-> CASE t = "t1" -> 1 [] t = "t2" -> 2 [] OTHER -> 3]

\* tasksById[id]: the task, or NULL (undefined) for an id that is no task.
tasksById(board, id) == IF id \in DOMAIN board THEN board[id] ELSE NULL

\* normalizeStatus: status.toLowerCase(), on the spellings of a status.
normalizeStatus(status) ==
  CASE status = "Todo" -> "todo"
    [] status = "InProgress" -> "inprogress"
    [] status = "INREVIEW" -> "inreview"
    [] OTHER -> status

ColumnBefore_olderFirst(board, a, b) ==
  IF board[a].position # board[b].position
    THEN Less(board[a].position, board[b].position)
    ELSE created_at[a] < created_at[b]

\* The comparator of kanbanColumns: position ascending, then created_at
\* descending (newer first).
ColumnBefore(board, a, b) ==
  IF board[a].position # board[b].position
    THEN Less(board[a].position, board[b].position)
    ELSE created_at[b] < created_at[a]

\* kanbanColumns[status]: the tasks of board with that status, sorted; board
\* holds the tasks that passed the search filter (all of them when the search
\* box is empty).
kanbanColumns(board, status) ==
  LET members == {t \in DOMAIN board : normalizeStatus(board[t].status) = status} IN
    [i \in 1..Cardinality(members) |->
       LET t == CHOOSE u \in members :
                  Cardinality({v \in members : ColumnBefore(board, v, u)}) = i - 1
       IN [id |-> t, position |-> board[t].position]]

\* targetTasks.findIndex((t) => t.id === overId), 0-based, -1 when absent.
findIndex(targetTasks, overId) ==
  IF \E i \in 1..Len(targetTasks) : targetTasks[i].id = overId
    THEN (CHOOSE i \in 1..Len(targetTasks) : targetTasks[i].id = overId) - 1
    ELSE -1

\* targetTasks[i]?.position ?? dflt, with the 0-based index of the code.
PositionAt(targetTasks, i, dflt) ==
  IF i >= 0 /\ i < Len(targetTasks) THEN targetTasks[i + 1].position ELSE dflt

\* The position the handler computes for a drop onto the task at overIndex.
DropPosition(targetTasks, overIndex) ==
  IF overIndex = 0
    THEN Minus(PositionAt(targetTasks, 0, Num(0)), Num(1000))
  ELSE IF overIndex = Len(targetTasks) - 1
    THEN Plus(PositionAt(targetTasks, Len(targetTasks) - 1, Num(0)), Num(1000))
  ELSE LET prevPos == PositionAt(targetTasks, overIndex - 1, Num(0))
           nextPos == PositionAt(targetTasks, overIndex, Plus(prevPos, Num(2000)))
       IN FloorDiv(Plus(prevPos, nextPos), 2)

NoStatus == "null"

\* A text as its characters.
Str(chars) == [chars |-> chars]

\* title, description and parent_workspace_id of each task; a description may
\* be null, a parent workspace id "null".
Attributes ==
  [t \in TaskIds |->
     CASE t = "t1" -> [title |-> Str(<<"F", "i", "x">>),
                       description |-> Str(<<"U", "I">>),
                       parent_workspace_id |-> "null"]
       [] t = "t2" -> [title |-> Str(<<"A", "d", "d">>),
                       description |-> NULL,
                       parent_workspace_id |-> "null"]
       [] OTHER -> [title |-> Str(<<"D", "o", "c">>),
                    description |-> Str(<<"f", "i", "x", " ", "i", "t">>),
                    parent_workspace_id |-> "w1"]]

\* A task as the board holds it.
Task(t, status, position) ==
  [status |-> status, position |-> position, title |-> Attributes[t].title,
   description |-> Attributes[t].description,
   parent_workspace_id |-> Attributes[t].parent_workspace_id]

UpdateTask_withoutDescription(task, status, position) ==
  [title |-> task.title, description |-> NULL, status |-> status,
   priority |-> "null", position |-> position,
   parent_workspace_id |-> task.parent_workspace_id,
   image_ids |-> "null", label_ids |-> "null"]

\* The body of a tasksApi.update call as the handler builds it.
UpdateTask(task, status, position) ==
  [title |-> task.title, description |-> task.description, status |-> status,
   priority |-> "null", position |-> position,
   parent_workspace_id |-> task.parent_workspace_id,
   image_ids |-> "null", label_ids |-> "null"]

Ignored(active, over) ==
  [active |-> active, over |-> over, kind |-> "ignored", sent |-> FALSE,
   status |-> NoStatus, position |-> NULL, review |-> FALSE,
   sourceStatus |-> NoStatus, targetStatus |-> NoStatus,
   overIndex |-> -1, targetTasks |-> <<>>, ok |-> FALSE,
   error |-> "none", reviewOutcome |-> "notTriggered", env |-> "none",
   requests |-> <<>>]

\* triggerAutoReview(taskId): how far it gets.  env is what the calls it makes
\* meet: attemptsApi.getAll throws ("lookupFails") or returns no workspace
\* ("noWorkspace"), sessionsApi.create throws ("sessionFails"), or both succeed
\* ("ready") and sessionsApi.startReview is called ("requested").  Every error
\* is caught and logged inside.  "lookupFails" and "sessionFails" are failures
\* of those calls for a task that has a workspace.
ReviewEnvs == {"lookupFails", "noWorkspace", "sessionFails", "ready"}

triggerAutoReview(settings, env) ==
  IF ~settings.enabled THEN "disabled"
  ELSE IF ~settings.executorProfileId THEN "noProfile"
  ELSE IF env = "lookupFails" THEN "failed"
  ELSE IF env = "noWorkspace" THEN "noWorkspace"
  ELSE IF env = "sessionFails" THEN "failed"
  ELSE "requested"

handleDragEnd_noReviewOnTaskDrop(board, active, over) ==
  LET task == tasksById(board, active)
      overTask == tasksById(board, over)
      isStatusChange == over \in StatusSet
  IN
  IF over = "none" THEN Ignored(active, over)
  ELSE IF task = NULL THEN Ignored(active, over)
  ELSE IF isStatusChange THEN
    IF task.status = over THEN Ignored(active, over)
    ELSE [active |-> active, over |-> over, kind |-> "column", sent |-> TRUE,
          status |-> over, position |-> NULL, review |-> (over = "inreview"),
          sourceStatus |-> task.status, targetStatus |-> over,
          overIndex |-> -1, targetTasks |-> kanbanColumns(board, over),
          ok |-> FALSE, error |-> "none", reviewOutcome |-> "notTriggered", env |-> "none",
          requests |-> <<UpdateTask(task, over, NULL)>>]
  ELSE IF overTask # NULL THEN
    LET sourceStatus == task.status
        targetStatus == overTask.status
        targetTasks == kanbanColumns(board, targetStatus)
        overIndex == findIndex(targetTasks, over)
        statusChanged == sourceStatus # targetStatus
    IN [active |-> active, over |-> over, kind |-> "task", sent |-> TRUE,
        status |-> IF statusChanged THEN targetStatus ELSE NoStatus,
        position |-> DropPosition(targetTasks, overIndex),
        review |-> FALSE,
        sourceStatus |-> sourceStatus, targetStatus |-> targetStatus,
        overIndex |-> overIndex, targetTasks |-> targetTasks, ok |-> FALSE,
        error |-> "none", reviewOutcome |-> "notTriggered", env |-> "none",
        requests |-> <<UpdateTask(task,
                                  IF statusChanged THEN targetStatus ELSE NoStatus,
                                  DropPosition(targetTasks, overIndex))>>]
  ELSE Ignored(active, over)

\* A handler without the early return for a drop on the task's own column.
handleDragEnd_noSameColumnCheck(board, active, over) ==
  LET task == tasksById(board, active)
      overTask == tasksById(board, over)
      isStatusChange == over \in StatusSet
  IN
  IF over = "none" THEN Ignored(active, over)
  ELSE IF task = NULL THEN Ignored(active, over)
  ELSE IF isStatusChange THEN
    IF FALSE THEN Ignored(active, over)
    ELSE [active |-> active, over |-> over, kind |-> "column", sent |-> TRUE,
          status |-> over, position |-> NULL, review |-> (over = "inreview"),
          sourceStatus |-> task.status, targetStatus |-> over,
          overIndex |-> -1, targetTasks |-> kanbanColumns(board, over),
          ok |-> FALSE, error |-> "none", reviewOutcome |-> "notTriggered", env |-> "none",
          requests |-> <<UpdateTask(task, over, NULL)>>]
  ELSE IF overTask # NULL THEN
    LET sourceStatus == task.status
        targetStatus == overTask.status
        targetTasks == kanbanColumns(board, targetStatus)
        overIndex == findIndex(targetTasks, over)
        statusChanged == sourceStatus # targetStatus
    IN [active |-> active, over |-> over, kind |-> "task", sent |-> TRUE,
        status |-> IF statusChanged THEN targetStatus ELSE NoStatus,
        position |-> DropPosition(targetTasks, overIndex),
        review |-> (statusChanged /\ targetStatus = "inreview"),
        sourceStatus |-> sourceStatus, targetStatus |-> targetStatus,
        overIndex |-> overIndex, targetTasks |-> targetTasks, ok |-> FALSE,
        error |-> "none", reviewOutcome |-> "notTriggered", env |-> "none",
        requests |-> <<UpdateTask(task,
                                  IF statusChanged THEN targetStatus ELSE NoStatus,
                                  DropPosition(targetTasks, overIndex))>>]
  ELSE Ignored(active, over)

\* handleDragEnd up to the request it sends: what is sent to tasksApi.update
\* (sent, status, position) and whether triggerAutoReview follows a success
\* (review).  ok, error and reviewOutcome are filled in when the request
\* completes.
handleDragEnd(board, active, over) ==
  LET task == tasksById(board, active)
      overTask == tasksById(board, over)
      isStatusChange == over \in StatusSet
  IN
  IF over = "none" THEN Ignored(active, over)
  ELSE IF task = NULL THEN Ignored(active, over)
  ELSE IF isStatusChange THEN
    IF task.status = over THEN Ignored(active, over)
    ELSE [active |-> active, over |-> over, kind |-> "column", sent |-> TRUE,
          status |-> over, position |-> NULL, review |-> (over = "inreview"),
          sourceStatus |-> task.status, targetStatus |-> over,
          overIndex |-> -1, targetTasks |-> kanbanColumns(board, over),
          ok |-> FALSE, error |-> "none", reviewOutcome |-> "notTriggered", env |-> "none",
          requests |-> <<UpdateTask(task, over, NULL)>>]
  ELSE IF overTask # NULL THEN
    LET sourceStatus == task.status
        targetStatus == overTask.status
        targetTasks == kanbanColumns(board, targetStatus)
        overIndex == findIndex(targetTasks, over)
        statusChanged == sourceStatus # targetStatus
    IN [active |-> active, over |-> over, kind |-> "task", sent |-> TRUE,
        status |-> IF statusChanged THEN targetStatus ELSE NoStatus,
        position |-> DropPosition(targetTasks, overIndex),
        review |-> (statusChanged /\ targetStatus = "inreview"),
        sourceStatus |-> sourceStatus, targetStatus |-> targetStatus,
        overIndex |-> overIndex, targetTasks |-> targetTasks, ok |-> FALSE,
        error |-> "none", reviewOutcome |-> "notTriggered", env |-> "none",
        requests |-> <<UpdateTask(task,
                                  IF statusChanged THEN targetStatus ELSE NoStatus,
                                  DropPosition(targetTasks, overIndex))>>]
  ELSE Ignored(active, over)

\* tasksApi.update as the persistence layer applies it: a null status or
\* position leaves the stored value as it is.
ApplyUpdate(board, id, status, position) ==
  [board EXCEPT ![id].status = IF status = NoStatus THEN @ ELSE status,
                ![id].position = IF position = NULL THEN @ ELSE position]

----------------------------------------------------------------------------
(* The board specification: any initial board, then drops.                 *)

MaxDrops == 2

InitLayouts ==
  { <<Num(1000), Num(2000), Num(3000)>>,
    <<Num(1000), Num(1001), Num(2000)>>,
    <<Num(0), Num(0), Num(0)>>,
    <<MIN_POSITION, Plus(MIN_POSITION, Num(1000)), Plus(MIN_POSITION, Num(2000))>>,
    <<Minus(MAX_POSITION, Num(2000)), Minus(MAX_POSITION, Num(1000)), MAX_POSITION>> }

InitStatuses ==
  {f \in [TaskIds -> {"todo", "inprogress"}] : f["t1"] = "todo" /\ f["t2"] = "todo"}

\* The settings as first loaded (disabled, no executor profile chosen), with
\* auto-review enabled but no profile, and with both.
InitSettings ==
  {st \in [enabled : BOOLEAN, executorProfileId : BOOLEAN] :
     st.executorProfileId => st.enabled}

TaskOrder == <<"t1", "t2", "t3">>

Init ==
  /\ \E layout \in InitLayouts, st \in InitStatuses :
       tasks = [t \in TaskIds |->
                  Task(t, st[t], layout[CHOOSE i \in 1..3 : TaskOrder[i] = t])]
  /\ lastDrop = Ignored("none", "none")
  /\ nDrops = 0
  /\ autoReviewSettings \in InitSettings
  /\ pc = "board"
  /\ InitCalcIdle
  /\ InitRebalanceIdle
  /\ InitConcurrentIdle
  /\ InitDisplayIdle
  /\ InitCallsIdle

\* A handler that calls the review trigger without awaiting the update.
Completed_reviewsWithoutSuccess(d, ok, env) ==
  [d EXCEPT
     !.ok = d.sent /\ ok,
     !.error = IF d.sent /\ ~ok THEN "logged" ELSE "none",
     !.reviewOutcome = IF d.review
                         THEN triggerAutoReview(autoReviewSettings, env)
                         ELSE "notTriggered",
     !.env = env]

\* A handler whose catch block sends the failed request once more.
Completed_retriesOnFailure(d, ok, env) ==
  [d EXCEPT
     !.ok = d.sent /\ ok,
     !.review = d.review /\ ok,
     !.error = IF d.sent /\ ~ok THEN "logged" ELSE "none",
     !.reviewOutcome = IF d.review /\ ok
                         THEN triggerAutoReview(autoReviewSettings, env)
                         ELSE "notTriggered",
     !.env = env,
     !.requests = IF d.sent /\ ~ok THEN d.requests \o d.requests ELSE d.requests]

\* The handler's request d completed: the update succeeded (ok) or failed; on
\* success the review trigger runs where the handler calls it, on failure the
\* catch block logs the error and the handler returns normally (error is
\* "logged"; nothing in the handler rethrows, which would be "thrown").
Completed(d, ok, env) ==
  [d EXCEPT
     !.ok = d.sent /\ ok,
     !.review = d.review /\ ok,
     !.error = IF d.sent /\ ~ok THEN "logged" ELSE "none",
     !.reviewOutcome = IF d.review /\ ok
                         THEN triggerAutoReview(autoReviewSettings, env)
                         ELSE "notTriggered",
     !.env = env]

Drop_updatesOverTask(active, over, ok, env) ==
  /\ nDrops < MaxDrops
  /\ lastDrop' = Completed(handleDragEnd(tasks, active, over), ok, env)
  /\ tasks' = IF lastDrop'.ok
                THEN ApplyUpdate(tasks, IF over \in TaskIds THEN over ELSE active,
                                 lastDrop'.status, lastDrop'.position)
                ELSE tasks
  /\ nDrops' = nDrops + 1
  /\ UNCHANGED <<autoReviewSettings, calcVars, rebalanceVars, concurrentVars, displayVars, calls, pc>>

\* One drop event handled to the end; on success the stored task and the
\* displayed board show the update.
Drop(active, over, ok, env) ==
  /\ nDrops < MaxDrops
  /\ lastDrop' = Completed(handleDragEnd(tasks, active, over), ok, env)
  /\ tasks' = IF lastDrop'.ok
                THEN ApplyUpdate(tasks, active, lastDrop'.status, lastDrop'.position)
                ELSE tasks
  /\ nDrops' = nDrops + 1
  /\ UNCHANGED <<autoReviewSettings, calcVars, rebalanceVars, concurrentVars, displayVars, calls, pc>>

\* ok only matters to a drop that sends a request, env only to one that runs
\* the review trigger.
Next ==
  \E active \in TaskIds \cup {"unknown"},
     over \in TaskIds \cup StatusSet \cup {"none", "unknown"},
     ok \in BOOLEAN,
     env \in ReviewEnvs :
    /\ Drop(active, over, ok, env)
    /\ (ok \/ lastDrop'.sent)
    /\ (env = "ready" \/ lastDrop'.review)

Spec == Init /\ [][Next]_vars

----------------------------------------------------------------------------
(* Properties of the drag handler (checked under Spec).                    *)

Dropped == nDrops > 0

AllInRange(ts) == \A i \in 1..Len(ts) : InRange(ts[i].position)

\* Adjacent gaps of the sorted column are all >= 2 (so positions are distinct).
WellSpaced(ts) ==
  \A i \in 1..(Len(ts) - 1) : LessEq(Num(2), Minus(ts[i + 1].position, ts[i].position))

\* C2: on a column whose positions all lie in [MIN_POSITION, MAX_POSITION],
\* the position the drag handler computes for a drop (head, tail or middle
\* insertion) also lies in [MIN_POSITION, MAX_POSITION].
C2_ComputedPositionInRange ==
  (Dropped /\ lastDrop.kind = "task" /\ AllInRange(lastDrop.targetTasks))
  => InRange(lastDrop.position)

\* C9: dropping a task onto the slot it already occupies within its own column
\* produces NoOp: no update (neither status nor position) is sent.
C9_DropOnOwnSlotIsNoOp ==
  (Dropped /\ lastDrop.active \in TaskIds /\ lastDrop.over = lastDrop.active)
  => ~lastDrop.sent

\* C10: when task T is dropped onto sibling S at index i of the target column
\* (positions distinct, adjacent gaps >= 2), writing the computed position to T
\* and re-sorting the target column leaves T at index i.
C10_DroppedTaskTakesSiblingIndex ==
  (Dropped /\ lastDrop.kind = "task" /\ lastDrop.ok
     /\ lastDrop.active # lastDrop.over /\ WellSpaced(lastDrop.targetTasks))
  => findIndex(kanbanColumns(tasks, lastDrop.targetStatus), lastDrop.active)
       = lastDrop.overIndex

----------------------------------------------------------------------------
(* Healthy and Degraded columns under drops (checked under Spec).          *)

\* A column is Degraded when needsRebalancing holds of it, Healthy otherwise.
Degraded(board, status) == needsRebalancing(kanbanColumns(board, status))

\* Two positions less than 10 apart.
Close(p, q) ==
  \/ (LessEq(p, q) /\ Less(Minus(q, p), Num(REBALANCE_THRESHOLD)))
  \/ (LessEq(q, p) /\ Less(Minus(p, q), Num(REBALANCE_THRESHOLD)))

\* C11 as stated: once a column is Degraded it stays Degraded under every drop
\* into, within or out of that column.
C11_DegradedStaysDegraded ==
  [][\A s \in StatusSet : Degraded(tasks, s) => Degraded(tasks', s)]_vars

\* C11 amended: a Degraded column stays Degraded under every drop that moves
\* neither task of some pair lying less than 10 apart in it; a drop that moves
\* a task of the close pair can make the column Healthy without a rebalance.
C11_DegradedWhileClosePairUntouched ==
  [][\A s \in StatusSet : \A a, b \in TaskIds :
       (/\ a # b
        /\ tasks[a].status = s
        /\ tasks[b].status = s
        /\ Close(tasks[a].position, tasks[b].position)
        /\ lastDrop'.active \notin {a, b})
       => Degraded(tasks', s)]_vars

C11_Witness ==
  /\ Dropped
  /\ lastDrop.kind = "task"
  /\ lastDrop.ok
  /\ \E i, j \in 1..Len(lastDrop.targetTasks) :
       /\ i # j
       /\ lastDrop.targetTasks[i].id # lastDrop.active
       /\ lastDrop.targetTasks[j].id # lastDrop.active
       /\ Close(lastDrop.targetTasks[i].position, lastDrop.targetTasks[j].position)
  /\ tasks[lastDrop.active].status = lastDrop.targetStatus
  /\ Degraded(tasks, lastDrop.targetStatus)

----------------------------------------------------------------------------
(* Repeated insertion at one slot: two neighbours a < b, then every new     *)
(* item is placed between a and the item inserted last.                     *)

MaxGap == 40

MaxInserts == 7

InsertAnchors == {MIN_POSITION, Num(0), Num(1000)}

InitInsert ==
  /\ \E a \in InsertAnchors, g \in 1..MaxGap :
       /\ prevPosition = a
       /\ nextPosition = Plus(a, Num(g))
       /\ taskList = <<[id |-> "A", position |-> a],
                       [id |-> "B", position |-> Plus(a, Num(g))]>>
  /\ newPosition = NULL
  /\ needs = FALSE
  /\ rebalanced = <<>>
  /\ rebalancedAgain = <<>>
  /\ pc = "insert"
  /\ InitBoardIdle

Inserted == Len(taskList) - 2

InsertAtSameSlot ==
  /\ pc = "insert"
  /\ Inserted < MaxInserts
  /\ newPosition' = calculateNewPosition(prevPosition, nextPosition)
  /\ taskList' = Append(taskList, [id |-> ToString(Inserted + 1), position |-> newPosition'])
  /\ nextPosition' = newPosition'
  /\ needs' = needsRebalancing(taskList')
  /\ UNCHANGED <<prevPosition, rebalanced, rebalancedAgain, boardVars, concurrentVars, displayVars, calls, pc>>

NextInsert == InsertAtSameSlot

SpecInsert == InitInsert /\ [][NextInsert]_vars

\* The least k with 2^k >= n.
RECURSIVE Log2Ceil(_)
Log2Ceil(n) == IF n <= 1 THEN 0 ELSE 1 + Log2Ceil((n + 1) \div 2)

\* b - a of the two neighbours the insertions started from.
InitialGap == Minus(taskList[2].position, taskList[1].position).lo

\* C12: starting from two neighbours a < b, repeatedly inserting at the same
\* slot (between a and the item inserted last) reaches a column for which
\* needsRebalancing is true after at most about log2(b - a) insertions (and at
\* least one); for A:1000 and B:1001 that is after the first insertion.
C12_RebalanceDueWithinLog2 ==
  (pc = "insert" /\ Inserted >= 1 /\ Inserted >= Log2Ceil(InitialGap)) => needs

\* A gap of 40 is halved to 20, 10 and 5: the third insertion makes the
\* rebalance due, within the bound of six.
C12_Witness ==
  /\ pc = "insert"
  /\ InitialGap = 40
  /\ Inserted = 3
  /\ needs
  /\ ~needsRebalancing(SubSeq(taskList, 1, 4))

----------------------------------------------------------------------------
(* Auto-review on a move to In Review (checked under Spec).                *)

\* The last drop changed the status of its task to inreview.
MovedToInReview ==
  /\ Dropped
  /\ lastDrop.ok
  /\ lastDrop.status = "inreview"
  /\ lastDrop.sourceStatus # "inreview"
  /\ tasks[lastDrop.active].status = "inreview"

ReviewConfigured == autoReviewSettings.enabled /\ autoReviewSettings.executorProfileId

----------------------------------------------------------------------------
(* Failure of the update request (checked under Spec).                     *)

\* C14: a failure of the persistence update issued for a drop is surfaced
\* unchanged to the caller of the drag handler (the handler's promise rejects
\* with it), so the caller can observe that the drop failed.
C14_UpdateFailureReachesCaller ==
  (Dropped /\ lastDrop.sent /\ ~lastDrop.ok) => lastDrop.error = "thrown"

----------------------------------------------------------------------------
(* The empty list (checked under SpecRebalance).                           *)

\* C15: rebalancePositions on an empty list returns an empty list (and so
\* does a second pass over that result).
C15_EmptyListGivesEmptyList ==
  /\ (pc \in {"once", "twice"} /\ Len(taskList) = 0) => Len(rebalanced) = 0
  /\ (pc = "twice" /\ Len(taskList) = 0) => Len(rebalancedAgain) = 0

C15_Witness ==
  /\ pc = "once"
  /\ taskList = <<>>
  /\ rebalanced = <<>>
  /\ ~needs

----------------------------------------------------------------------------
(* Two actors dragging in the same column from the same snapshot.  The     *)
(* handler is split at its await: Drag computes the request from the board *)
(* the actor sees, Land is the completion of tasksApi.update; the store    *)
(* applies the requests in the order they land (last write wins).          *)

Actors == {"a1", "a2"}

InitConcurrent ==
  /\ \E layout \in InitLayouts :
       tasks = [t \in TaskIds |->
                  Task(t, "todo", layout[CHOOSE i \in 1..3 : TaskOrder[i] = t])]
  /\ snapshot = tasks
  /\ inflight = [a \in Actors |-> [state |-> "idle", req |-> Ignored("none", "none")]]
  /\ writes = <<>>
  /\ lastDrop = Ignored("none", "none")
  /\ nDrops = 0
  /\ autoReviewSettings = [enabled |-> FALSE, executorProfileId |-> FALSE]
  /\ pc = "concurrent"
  /\ InitCalcIdle
  /\ InitRebalanceIdle
  /\ InitDisplayIdle
  /\ InitCallsIdle

\* An actor drops a task onto a task of the column, on the snapshot it sees.
Drag(actor, active, over) ==
  /\ inflight[actor].state = "idle"
  /\ LET req == handleDragEnd(snapshot, active, over) IN
       /\ req.sent
       /\ inflight' = [inflight EXCEPT ![actor] = [state |-> "sent", req |-> req]]
  /\ UNCHANGED <<tasks, snapshot, writes, lastDrop, nDrops, autoReviewSettings,
                 calcVars, rebalanceVars, displayVars, calls, pc>>

Land_writesOverTask(actor, ok) ==
  /\ inflight[actor].state = "sent"
  /\ inflight' = [inflight EXCEPT ![actor].state = IF ok THEN "landed" ELSE "failed"]
  /\ tasks' = IF ok
                THEN ApplyUpdate(tasks, inflight[actor].req.over,
                                 inflight[actor].req.status, inflight[actor].req.position)
                ELSE tasks
  /\ writes' = IF ok THEN Append(writes, actor) ELSE writes
  /\ UNCHANGED <<snapshot, lastDrop, nDrops, autoReviewSettings,
                 calcVars, rebalanceVars, displayVars, calls, pc>>

\* The update request of an actor completes.
Land(actor, ok) ==
  /\ inflight[actor].state = "sent"
  /\ inflight' = [inflight EXCEPT ![actor].state = IF ok THEN "landed" ELSE "failed"]
  /\ tasks' = IF ok
                THEN ApplyUpdate(tasks, inflight[actor].req.active,
                                 inflight[actor].req.status, inflight[actor].req.position)
                ELSE tasks
  /\ writes' = IF ok THEN Append(writes, actor) ELSE writes
  /\ UNCHANGED <<snapshot, lastDrop, nDrops, autoReviewSettings,
                 calcVars, rebalanceVars, displayVars, calls, pc>>

NextConcurrent ==
  \/ \E actor \in Actors, active \in TaskIds, over \in TaskIds : Drag(actor, active, over)
  \/ \E actor \in Actors, ok \in BOOLEAN : Land(actor, ok)

SpecConcurrent == InitConcurrent /\ [][NextConcurrent]_vars

IdsOf(column) == [i \in 1..Len(column) |-> column[i].id]

StoredOrder == IdsOf(kanbanColumns(tasks, "todo"))

\* The order an actor intended: the snapshot with its own request applied.
IntendedOrder(actor) ==
  LET req == inflight[actor].req IN
    IdsOf(kanbanColumns(ApplyUpdate(snapshot, req.active, req.status, req.position),
                        "todo"))

\* The stored order differs from the order some dragging actor intended.
Inversion ==
  \E actor \in Actors :
    /\ inflight[actor].state \in {"sent", "landed"}
    /\ StoredOrder # IntendedOrder(actor)

BothLanded == \A actor \in Actors : inflight[actor].state = "landed"

\* C16 as stated: with two actors dragging concurrently in the same column
\* from the same snapshot (last write wins), an ordering inversion no longer
\* exists once both writes have landed.
C16_NoInversionOnceBothLanded == BothLanded => ~Inversion

\* The last actor to land a write for task t, or "none".
LastWriter(t) ==
  LET idx == {i \in 1..Len(writes) : inflight[writes[i]].req.active = t} IN
    IF idx = {} THEN "none"
    ELSE writes[CHOOSE i \in idx : \A j \in idx : j <= i]

\* C16 amended: an ordering inversion is reachable while only one write has
\* landed, and it can persist once both have landed; what holds then is last
\* write wins per task: every dragged task carries the position of the last
\* write that landed for it and every other task its snapshot position.
C16_LastWriteWinsPerTask ==
  BothLanded =>
    \A t \in TaskIds :
      IF LastWriter(t) = "none" THEN tasks[t] = snapshot[t]
      ELSE /\ tasks[t].position = inflight[LastWriter(t)].req.position
           /\ tasks[t].status = snapshot[t].status

C16_Witness ==
  /\ BothLanded
  /\ inflight["a1"].req.active # inflight["a2"].req.active
  /\ StoredOrder # IntendedOrder("a1")
  /\ StoredOrder # IntendedOrder("a2")

\* The inversion while only one write has landed.
InversionWithOneWrite ==
  /\ Len(writes) = 1
  /\ \A actor \in Actors : inflight[actor].state \in {"sent", "landed"}
  /\ Inversion

----------------------------------------------------------------------------
(* calculatePositionForIndex and the position the drag handler writes.     *)

\* draggedTaskId left out (undefined).
NoId == ""

calculatePositionForIndex(targetIndex, ts, draggedTaskId) ==
  LET filteredTasks == IF draggedTaskId # NoId
                         THEN SelectSeq(ts, LAMBDA t : t.id # draggedTaskId)
                         ELSE ts
      prevTask == PositionAt(filteredTasks, targetIndex - 1, NULL)
      nextTask == PositionAt(filteredTasks, targetIndex, NULL)
  IN calculateNewPosition(prevTask, nextTask)

OnTask == Dropped /\ lastDrop.kind = "task"

\* The drop took the handler's middle branch: it averaged the positions of the
\* tasks at overIndex - 1 and overIndex of the displayed column.
MiddleDrop ==
  /\ OnTask
  /\ lastDrop.overIndex >= 1
  /\ lastDrop.overIndex < Len(lastDrop.targetTasks) - 1

PrevOfDrop == lastDrop.targetTasks[lastDrop.overIndex].position

NextOfDrop == lastDrop.targetTasks[lastDrop.overIndex + 1].position

\* C17: for every drop onto a sibling, the position the drag handler writes is
\* calculatePositionForIndex(dropIndex, targetColumn, draggedTaskId): the
\* calculator applied to the neighbours of the drop index in the column with
\* the dragged task removed.
C17_HandlerWritesCalculatorPosition ==
  (OnTask /\ lastDrop.active # lastDrop.over) =>
    lastDrop.position =
      calculatePositionForIndex(lastDrop.overIndex, lastDrop.targetTasks, lastDrop.active)

\* Boards on which no two tasks share a position.
InitDistinct ==
  /\ Init
  /\ \A a, b \in TaskIds : a # b => tasks[a].position # tasks[b].position

SpecDistinct == InitDistinct /\ [][Next]_vars

\* C18: in every column state reachable by drops, whenever the handler computes
\* a position from two present neighbours, prev < next strictly.
C18_NeighboursStrictlyOrdered ==
  MiddleDrop => Less(PrevOfDrop, NextOfDrop)

\* C19: when the two neighbours at the drop slot have a gap below 2, the
\* handler still sends the reposition, the position it carries is prev + 1,
\* and the resulting column is due for rebalancing.
C19_DegradedDropIsPrevPlusOne ==
  (MiddleDrop /\ LessEq(PrevOfDrop, NextOfDrop)
     /\ Less(Minus(NextOfDrop, PrevOfDrop), Num(2)))
  => /\ lastDrop.sent
     /\ lastDrop.position = Plus(PrevOfDrop, Num(1))
     /\ lastDrop.ok => Degraded(tasks, lastDrop.targetStatus)

\* C20: a task dropped onto a different column's drop target gets that
\* column's status and a position computed by the position calculator from the
\* column's last item, which places it at the end of the target column.
C20_ColumnDropAppends ==
  (Dropped /\ lastDrop.kind = "column" /\ lastDrop.over # lastDrop.sourceStatus
     /\ lastDrop.ok)
  => /\ tasks[lastDrop.active].status = lastDrop.over
     /\ lastDrop.position =
          calculateNewPosition(
            PositionAt(lastDrop.targetTasks, Len(lastDrop.targetTasks) - 1, NULL), NULL)
     /\ LET column == kanbanColumns(tasks, lastDrop.over) IN
          column[Len(column)].id = lastDrop.active

----------------------------------------------------------------------------
(* The midpoint of calculateNewPosition (checked under SpecCalc).          *)

\* r is floor(x / 2): the one integer with 2r <= x <= 2r + 1.
IsFloorOfHalf(r, x) == Minus(x, Times(r, 2)) \in {Num(0), Num(1)}

\* C21: with both neighbours present and next - prev >= 2,
\* calculateNewPosition(prev, next) returns exactly floor((prev + next) / 2),
\* also for negative positions; calculateNewPosition(2000, 3000) = 2500.
C21_MidpointIsFloorOfHalfSum ==
  (Called /\ BothPresent /\ LessEq(Num(2), Minus(nextPosition, prevPosition)))
  => /\ IsFloorOfHalf(newPosition, Plus(prevPosition, nextPosition))
     /\ (prevPosition = Num(2000) /\ nextPosition = Num(3000))
          => newPosition = Num(2500)

C21_Witness ==
  /\ Called
  /\ prevPosition = Num(0 - 2)
  /\ nextPosition = Num(1)
  /\ newPosition = Num(0 - 1)

----------------------------------------------------------------------------
(* The positions rebalancePositions assigns (checked under SpecRebalance). *)

Rebalanced == pc \in {"once", "twice"}

\* The position the task with this id has in the input list.
InputPosition(id) ==
  taskList[CHOOSE i \in 1..Len(taskList) : taskList[i].id = id].position

\* g is floor(x / n): g * n <= x < (g + 1) * n.
IsFloorOfQuotient(g, x, n) ==
  /\ LessEq(Times(g, n), x)
  /\ Less(x, Times(Plus(g, Num(1)), n))

\* C22: for count items, rebalancePositions assigns to the item at index i
\* (0-based, in sorted order) the position MIN_POSITION + gap * (i + 1) with
\* gap = floor((MAX_POSITION - MIN_POSITION) / (count + 1)); for a 2-item list
\* this is MIN + gap and MIN + 2 * gap.
C22_EvenlySpacedFromMin ==
  (Rebalanced /\ Len(taskList) > 0) =>
    LET count == Len(taskList)
        gap == Minus(rebalanced[1].position, MIN_POSITION) IN
      /\ Len(rebalanced) = count
      /\ IsFloorOfQuotient(gap, Minus(MAX_POSITION, MIN_POSITION), count + 1)
      /\ \A i \in 1..count :
           rebalanced[i].position = Plus(MIN_POSITION, Times(gap, i))
      /\ \A i \in 1..(count - 1) :
           LessEq(InputPosition(rebalanced[i].task_id),
                  InputPosition(rebalanced[i + 1].task_id))
      /\ count = 2 =>
           /\ rebalanced[1].position = Num(0 - 715827883)
           /\ rebalanced[2].position = Num(715827882)

C22_Witness ==
  /\ pc = "once"
  /\ Len(taskList) = 2
  /\ Less(taskList[2].position, taskList[1].position)
  /\ rebalanced[1].task_id = taskList[2].id
  /\ rebalanced[1].position = Num(0 - 715827883)
  /\ rebalanced[2].position = Num(715827882)

\* C23: applying the output of rebalancePositions to a column of any state
\* (Degraded included, ties included) leaves the column Healthy:
\* needsRebalancing of the rebalanced column is false, for every column size
\* up to MaxLen.
C23_RebalancedColumnIsHealthy ==
  Rebalanced => ~needsRebalancing(ApplyUpdates(rebalanced))

C23_Witness ==
  /\ pc = "once"
  /\ Len(taskList) = 3
  /\ taskList[1].position = taskList[3].position
  /\ needs
  /\ ~needsRebalancing(ApplyUpdates(rebalanced))

----------------------------------------------------------------------------
(* The requests one drop sends (checked under Spec).                       *)

\* C24: every drop event leads to at most one update request to the
\* persistence API, also when that request fails: the handler never retries
\* and never issues a second write for the same drop.
C24_AtMostOneRequestPerDrop ==
  Dropped =>
    /\ Len(lastDrop.requests) <= 1
    /\ lastDrop.sent <=> Len(lastDrop.requests) = 1
    /\ lastDrop.error = "logged" => Len(lastDrop.requests) = 1

C24_Witness ==
  /\ Dropped
  /\ lastDrop.kind = "task"
  /\ lastDrop.sent
  /\ ~lastDrop.ok
  /\ lastDrop.error = "logged"
  /\ Len(lastDrop.requests) = 1

----------------------------------------------------------------------------
(* The displayed columns: kanbanColumns over the tasks and the search box. *)

UpperCase == <<"A", "D", "F", "I", "U", "X", "Z">>

LowerCase == <<"a", "d", "f", "i", "u", "x", "z">>

\* String.prototype.toLowerCase on the characters of a text.
toLowerCase(chars) ==
  [i \in 1..Len(chars) |->
     IF \E k \in 1..Len(UpperCase) : UpperCase[k] = chars[i]
       THEN LowerCase[CHOOSE k \in 1..Len(UpperCase) : UpperCase[k] = chars[i]]
       ELSE chars[i]]

\* String.prototype.trim: blanks removed at both ends.
RECURSIVE trim(_)
trim(chars) ==
  IF chars = <<>> THEN <<>>
  ELSE IF Head(chars) = " " THEN trim(Tail(chars))
  ELSE IF chars[Len(chars)] = " " THEN trim(SubSeq(chars, 1, Len(chars) - 1))
  ELSE chars

\* String.prototype.includes.
includes(chars, part) ==
  \E i \in 0..(Len(chars) - Len(part)) : SubSeq(chars, i + 1, i + Len(part)) = part

hasSearch(query) == trim(query) # <<>>

normalizedSearch(query) == toLowerCase(trim(query))

matchesSearch(query, title, description) ==
  IF ~hasSearch(query) THEN TRUE
  ELSE LET lowerTitle == toLowerCase(title.chars)
           lowerDescription == IF description = NULL THEN <<>>
                               ELSE toLowerCase(description.chars)
       IN \/ includes(lowerTitle, normalizedSearch(query))
          \/ includes(lowerDescription, normalizedSearch(query))

\* The tasks the forEach of kanbanColumns pushes into a column.
Matching(board, query) ==
  [t \in {u \in DOMAIN board :
            matchesSearch(query, board[u].title, board[u].description)}
     |-> board[t]]

SearchQueries ==
  { <<>>, <<" ">>, <<"F", "I", "X">>, <<" ", "a", "d", "d", " ">>, <<"i">>, <<"z">> }

DisplayStatuses == {"todo", "Todo", "InProgress", "inreview"}

InitDisplay ==
  /\ \E layout \in InitLayouts, st \in [TaskIds -> DisplayStatuses] :
       tasks = [t \in TaskIds |->
                  Task(t, st[t], layout[CHOOSE i \in 1..3 : TaskOrder[i] = t])]
  /\ searchQuery \in SearchQueries
  /\ columns = <<>>
  /\ lastDrop = Ignored("none", "none")
  /\ nDrops = 0
  /\ autoReviewSettings = [enabled |-> FALSE, executorProfileId |-> FALSE]
  /\ pc = "display"
  /\ InitCalcIdle
  /\ InitRebalanceIdle
  /\ InitConcurrentIdle
  /\ InitCallsIdle

\* The useMemo of kanbanColumns evaluated for the current tasks and search.
Display ==
  /\ pc = "display"
  /\ columns' = [status \in StatusSet |->
                   kanbanColumns(Matching(tasks, searchQuery), status)]
  /\ pc' = "displayed"
  /\ UNCHANGED <<boardVars, calcVars, rebalanceVars, concurrentVars, searchQuery, calls>>

NextDisplay == Display

SpecDisplay == InitDisplay /\ [][NextDisplay]_vars

Displayed == pc = "displayed"

\* Each column ascending by position, equal positions newer first.
ColumnsSorted ==
  \A status \in StatusSet :
    \A i \in 1..(Len(columns[status]) - 1) :
      LET a == columns[status][i]
          b == columns[status][i + 1] IN
        /\ LessEq(a.position, b.position)
        /\ a.position = b.position => created_at[a.id] > created_at[b.id]

\* The number of places at which task t is displayed in the column of status.
Places(t, status) ==
  Cardinality({i \in 1..Len(columns[status]) : columns[status][i].id = t})

InOwnColumnOnly(t) ==
  \A status \in StatusSet :
    Places(t, status) = IF status = normalizeStatus(tasks[t].status) THEN 1 ELSE 0

Hidden(t) == \A status \in StatusSet : Places(t, status) = 0

\* C25 as stated: in every board state, each displayed column is sorted by
\* ascending position, tasks with equal position are ordered by created_at
\* descending (newer first), and every task appears in exactly the column of
\* its (lower-cased) status.
C25_EveryTaskInItsSortedColumn ==
  Displayed => ColumnsSorted /\ \A t \in TaskIds : InOwnColumnOnly(t)

\* C25 amended: each displayed column is sorted by ascending position with
\* equal positions newer first; every task that matches the search (every
\* task, when the search box is blank) appears in exactly the column of its
\* lower-cased status, and a task that does not match appears in no column.
C25_MatchingTasksInTheirSortedColumn ==
  Displayed =>
    /\ ColumnsSorted
    /\ \A t \in TaskIds :
         IF matchesSearch(searchQuery, tasks[t].title, tasks[t].description)
           THEN InOwnColumnOnly(t)
           ELSE Hidden(t)

C25_Witness ==
  /\ Displayed
  /\ searchQuery = <<"F", "I", "X">>
  /\ tasks["t1"].status = "Todo"
  /\ tasks["t3"].status = "todo"
  /\ tasks["t1"].position = tasks["t3"].position
  /\ Len(columns["todo"]) = 2
  /\ columns["todo"][1].id = "t3"
  /\ Hidden("t2")

----------------------------------------------------------------------------
(* Purity probe: calculatePositionForIndex, needsRebalancing and           *)
(* rebalancePositions called, in any order and repeatedly, on one array.   *)
(* taskList is the array the caller holds: filter and [...tasks] build new *)
(* arrays, so no call writes it.                                           *)

MaxCalls == 2

DraggedIds == {NoId, "t1", "t2"}

InitPure ==
  /\ taskList \in TaskLists
  /\ calls = <<>>
  /\ rebalanced = <<>>
  /\ rebalancedAgain = <<>>
  /\ needs = FALSE
  /\ pc = "pure"
  /\ InitBoardIdle
  /\ InitCalcIdle

Call(fn, targetIndex, draggedTaskId, result) ==
  [fn |-> fn, targetIndex |-> targetIndex, draggedTaskId |-> draggedTaskId,
   tasks |-> taskList, result |-> result]

CallPositionForIndex(targetIndex, draggedTaskId) ==
  /\ pc = "pure"
  /\ Len(calls) < MaxCalls
  /\ calls' = Append(calls,
       Call("calculatePositionForIndex", targetIndex, draggedTaskId,
            [position |-> calculatePositionForIndex(targetIndex, taskList, draggedTaskId)]))
  /\ UNCHANGED <<taskList, rebalanced, rebalancedAgain, needs, boardVars, calcVars,
                 concurrentVars, displayVars, pc>>

CallNeedsRebalancing ==
  /\ pc = "pure"
  /\ Len(calls) < MaxCalls
  /\ calls' = Append(calls,
       Call("needsRebalancing", 0, NoId, [needs |-> needsRebalancing(taskList)]))
  /\ UNCHANGED <<taskList, rebalanced, rebalancedAgain, needs, boardVars, calcVars,
                 concurrentVars, displayVars, pc>>

\* rebalancePositions sorting its argument in place (tasks.sort) instead of a copy.
CallRebalancePositions_sortsInPlace ==
  /\ pc = "pure"
  /\ Len(calls) < MaxCalls
  /\ calls' = Append(calls,
       Call("rebalancePositions", 0, NoId, [updates |-> rebalancePositions(taskList)]))
  /\ taskList' = SortByPosition(taskList)
  /\ UNCHANGED <<rebalanced, rebalancedAgain, needs, boardVars, calcVars,
                 concurrentVars, displayVars, pc>>

CallRebalancePositions ==
  /\ pc = "pure"
  /\ Len(calls) < MaxCalls
  /\ calls' = Append(calls,
       Call("rebalancePositions", 0, NoId, [updates |-> rebalancePositions(taskList)]))
  /\ UNCHANGED <<taskList, rebalanced, rebalancedAgain, needs, boardVars, calcVars,
                 concurrentVars, displayVars, pc>>

NextPure ==
  \/ \E targetIndex \in 0..MaxLen, draggedTaskId \in DraggedIds :
       CallPositionForIndex(targetIndex, draggedTaskId)
  \/ CallNeedsRebalancing
  \/ CallRebalancePositions

SpecPure == InitPure /\ [][NextPure]_vars

SameCall(a, b) ==
  /\ a.fn = b.fn
  /\ a.targetIndex = b.targetIndex
  /\ a.draggedTaskId = b.draggedTaskId

----------------------------------------------------------------------------
(* The ids rebalancePositions returns (checked under SpecRebalance).       *)

\* C27: the output of rebalancePositions contains each input task id exactly
\* once (a permutation of the input ids), also when several input tasks share
\* the same position.
C27_OutputIdsPermuteInputIds ==
  Rebalanced =>
    /\ Len(rebalanced) = Len(taskList)
    /\ \A i \in 1..Len(taskList) :
         Cardinality({j \in 1..Len(rebalanced) :
                        rebalanced[j].task_id = taskList[i].id}) = 1

C27_Witness ==
  /\ pc = "once"
  /\ Len(taskList) = 3
  /\ taskList[1].position = taskList[2].position
  /\ taskList[2].position = taskList[3].position
  /\ {rebalanced[j].task_id : j \in 1..Len(rebalanced)} = {"t1", "t2", "t3"}

----------------------------------------------------------------------------
(* When the drag handler calls triggerAutoReview (checked under Spec).     *)

\* C28: the auto-review trigger for a drop is invoked only after the update
\* request for that drop has completed successfully and only when the drop
\* changed the task's status to inreview; it is never invoked when the update
\* fails, nor for a reorder inside In Review, nor for a task already inreview
\* dropped on the In Review column.
C28_ReviewOnlyAfterSuccessfulMoveToInReview ==
  Dropped =>
    /\ lastDrop.review =>
         /\ lastDrop.ok
         /\ lastDrop.sourceStatus # "inreview"
         /\ lastDrop.targetStatus = "inreview"
         /\ tasks[lastDrop.active].status = "inreview"
    /\ (lastDrop.sent /\ ~lastDrop.ok) => ~lastDrop.review
    /\ (lastDrop.kind = "task" /\ lastDrop.sourceStatus = "inreview"
          /\ lastDrop.targetStatus = "inreview") => ~lastDrop.review
    /\ (lastDrop.active \in TaskIds /\ lastDrop.over = "inreview"
          /\ lastDrop.kind = "ignored") => ~lastDrop.review

C28_Witness ==
  /\ nDrops = 2
  /\ lastDrop.kind = "task"
  /\ lastDrop.review
  /\ lastDrop.ok
  /\ lastDrop.sourceStatus = "todo"
  /\ tasks[lastDrop.active].status = "inreview"
  /\ lastDrop.reviewOutcome = "disabled"

\* The cases C28 excludes are reached: a failed move to In Review, a reorder
\* inside In Review, and a task of In Review dropped on the In Review column.
C28_FailedMoveReached ==
  /\ Dropped /\ lastDrop.sent /\ ~lastDrop.ok /\ lastDrop.targetStatus = "inreview"
  /\ lastDrop.sourceStatus # "inreview"

C28_ReorderInReviewReached ==
  /\ Dropped /\ lastDrop.kind = "task" /\ lastDrop.ok
  /\ lastDrop.sourceStatus = "inreview" /\ lastDrop.targetStatus = "inreview"

C28_SameColumnReached ==
  /\ Dropped /\ lastDrop.kind = "ignored" /\ lastDrop.over = "inreview"
  /\ lastDrop.active \in TaskIds /\ tasks[lastDrop.active].status = "inreview"

----------------------------------------------------------------------------
(* Drops the drag handler ignores (checked under Spec).                    *)

\* The drop (active, over) on this board is one the handler has no update
\* for: no target, an unknown dragged id, a target that is neither a status
\* column nor a task, or the column of the task's current status.
NothingToDo(board, active, over) ==
  \/ over = "none"
  \/ active \notin DOMAIN board
  \/ over \notin StatusSet \cup DOMAIN board
  \/ over \in StatusSet /\ board[active].status = over

\* C29: the drag handler issues no update at all when the drop has no target,
\* when the dragged id is not a known task, when the target id is neither a
\* status column nor a known task, or when the task is dropped on the column
\* of its current status.
C29_NoUpdateForIgnoredDrops ==
  [][(nDrops' = nDrops + 1 /\ NothingToDo(tasks, lastDrop'.active, lastDrop'.over))
       => /\ ~lastDrop'.sent
          /\ lastDrop'.requests = <<>>
          /\ tasks' = tasks]_vars

C29_Witness ==
  /\ nDrops = 2
  /\ lastDrop.active = "t3"
  /\ lastDrop.over = "done"
  /\ tasks["t3"].status = "done"
  /\ lastDrop.kind = "ignored"
  /\ lastDrop.requests = <<>>

----------------------------------------------------------------------------
(* What an update request carries (checked under Spec).                    *)

\* C30: a drop onto a sibling sends a status value only when the target
\* column differs from the source column (status is left unset for a
\* within-column reorder), and a drop onto a column target sends no position
\* (the stored position is left unchanged); title, description and parent
\* workspace are always resent unchanged.
C30_RequestCarriesOnlyWhatChanged ==
  [][(nDrops' = nDrops + 1 /\ lastDrop'.sent) =>
       LET request == lastDrop'.requests[1]
           task == tasks[lastDrop'.active] IN
         /\ request.title = task.title
         /\ request.description = task.description
         /\ request.parent_workspace_id = task.parent_workspace_id
         /\ lastDrop'.kind = "task" =>
              LET overTask == tasks[lastDrop'.over] IN
                /\ overTask.status = task.status => request.status = NoStatus
                /\ overTask.status # task.status => request.status = overTask.status
         /\ lastDrop'.kind = "column" =>
              /\ request.position = NULL
              /\ request.status = lastDrop'.over
              /\ lastDrop'.ok => tasks'[lastDrop'.active].position = task.position]_vars

C30_Witness ==
  /\ nDrops = 1
  /\ lastDrop.kind = "task"
  /\ lastDrop.active = "t1"
  /\ lastDrop.over = "t2"
  /\ lastDrop.ok
  /\ lastDrop.requests[1].status = NoStatus
  /\ lastDrop.requests[1].title = Str(<<"F", "i", "x">>)
  /\ lastDrop.requests[1].description = Str(<<"U", "I">>)

\* The other two cases of C30 are reached: a sibling drop into another column
\* and a column drop.
C30_CrossColumnReached ==
  /\ Dropped /\ lastDrop.kind = "task" /\ lastDrop.ok
  /\ lastDrop.requests[1].status = "inprogress"
  /\ lastDrop.sourceStatus = "todo"

C30_ColumnDropReached ==
  /\ Dropped /\ lastDrop.kind = "column" /\ lastDrop.ok
  /\ lastDrop.requests[1].position = NULL
  /\ lastDrop.requests[1].parent_workspace_id = "w1"

====
